---- MODULE Spec2Model ----
(***************************************************************************)
(* Doctor-patient weekly scheduler (src/src/scheduler.py) and its          *)
(* independent verifier (src/src/verifier.py).                             *)
(*                                                                         *)
(* A time string "HH:MM" is the record [parses, h, m]: parses = FALSE      *)
(* stands for every string that is not two colon-separated integers; h, m  *)
(* are the two integers otherwise (NOT range-checked: "24:00" is           *)
(* [parses |-> TRUE, h |-> 24, m |-> 0]).  Formatting with "%02d:%02d"     *)
(* produces the record of the two printed numbers.                         *)
(***************************************************************************)
EXTENDS Integers, Sequences, FiniteSets, TLC

VARIABLES
    pc,         \* the position of the run: "start", "solved", "raised", "verified",
                \* "submit", "checked", "generate", "other", "time", "absolute", ...
    instance,   \* the case: [doctors, patients]
    step,       \* the --step of the call (solve's step, verify's enforce_step)
    feasible,   \* candidates of the last build_feasible_starts call
    solution,   \* the solution JSON (solve's return value, or a submitted one)
    result,     \* verify's return value
    calls       \* the build_feasible_starts calls made so far: [step, raised, feasible, prior]

vars == <<pc, instance, step, feasible, solution, result, calls>>

----------------------------------------------------------------------------
(* Bounds of the model *)

MaxWindows == 2

MaxPatients == 2

MaxItems == 2

MaxCalls == 2

\* Cap on the passes of the while loop within one window.
MaxIterations == 12

----------------------------------------------------------------------------
(* Calendar / time model *)

DAY_ORDER == <<"Monday", "Tuesday", "Wednesday", "Thursday", "Friday", "Saturday", "Sunday">>

DayIndex(day) == CHOOSE i \in 1..Len(DAY_ORDER) : DAY_ORDER[i] = day

KnownDay(day) == \E i \in 1..Len(DAY_ORDER) : DAY_ORDER[i] = day

DAY_TO_OFFSET(day) == (DayIndex(day) - 1) * 24 * 60

MINUTES_PER_DAY == 24 * 60

T(hh, mm) == [parses |-> TRUE, h |-> hh, m |-> mm]

BadTime == [parses |-> FALSE, h |-> 0, m |-> 0]

\* scheduler.py hhmm_to_minutes: no range check; raises on an unparseable string.
hhmm_to_minutes(hhmm) ==
    IF hhmm.parses THEN [raised |-> FALSE, v |-> hhmm.h * 60 + hhmm.m]
    ELSE [raised |-> TRUE, v |-> 0]

minutes_to_hhmm(total) == T(total \div 60, total % 60)

\* Mutant: the whole total is formatted, not the minute of the day.
minutes_to_day_hhmm_Unwrapped(total) ==
    LET day_idx == total \div MINUTES_PER_DAY IN
    IF day_idx < 0 \/ day_idx >= Len(DAY_ORDER)
    THEN [raised |-> TRUE, day |-> "", hhmm |-> BadTime]
    ELSE [raised |-> FALSE, day |-> DAY_ORDER[day_idx + 1], hhmm |-> minutes_to_hhmm(total)]

\* scheduler.py minutes_to_day_hhmm: raises outside the 7-day range.
minutes_to_day_hhmm(total) ==
    LET day_idx == total \div MINUTES_PER_DAY IN
    IF day_idx < 0 \/ day_idx >= Len(DAY_ORDER)
    THEN [raised |-> TRUE, day |-> "", hhmm |-> BadTime]
    ELSE [raised |-> FALSE, day |-> DAY_ORDER[day_idx + 1],
          hhmm |-> minutes_to_hhmm(total % MINUTES_PER_DAY)]

\* verifier.py hhmm_to_minutes: range-checked.
v_hhmm_to_minutes(hhmm) ==
    IF ~hhmm.parses THEN [raised |-> TRUE, v |-> 0]
    ELSE IF hhmm.h < 0 \/ hhmm.h > 23 \/ hhmm.m < 0 \/ hhmm.m > 59
    THEN [raised |-> TRUE, v |-> 0]
    ELSE [raised |-> FALSE, v |-> hhmm.h * 60 + hhmm.m]

to_absolute_minutes(day, hhmm) ==
    IF ~KnownDay(day) THEN [raised |-> TRUE, v |-> 0]
    ELSE LET r == v_hhmm_to_minutes(hhmm) IN
         IF r.raised THEN r ELSE [raised |-> FALSE, v |-> DAY_TO_OFFSET(day) + r.v]

----------------------------------------------------------------------------
(* Cases *)

Window(day, s, e) == [day |-> day, start |-> s, end |-> e]

\* The availability windows a case draws from, in this order.
WindowPool ==
    << Window("Monday", T(9, 0), T(10, 0)),
       Window("Monday", T(9, 30), T(10, 30)),
       Window("Tuesday", T(9, 0), T(9, 30)),
       Window("Monday", T(10, 0), T(9, 0)),
       Window("Monday", T(23, 0), T(24, 0)),
       Window("Sunday", T(23, 30), T(24, 0)) >>

DoctorIds == <<"d1", "d2">>

PatientIds == <<"p1", "p2", "p3", "p4">>

Durations == {30, 60}

Steps == {30, 60}

\* Python's string order on the ids used here.
IdRank(id) ==
    IF \E i \in 1..Len(PatientIds) : PatientIds[i] = id
    THEN CHOOSE i \in 1..Len(PatientIds) : PatientIds[i] = id
    ELSE IF \E i \in 1..Len(DoctorIds) : DoctorIds[i] = id
    THEN CHOOSE i \in 1..Len(DoctorIds) : DoctorIds[i] = id
    ELSE 0

\* The elements of a finite set of integers as an increasing sequence.
RECURSIVE IncSeq(_)
IncSeq(S) ==
    IF S = {} THEN <<>>
    ELSE LET x == CHOOSE y \in S : \A z \in S : y <= z
         IN <<x>> \o IncSeq(S \ {x})

Availabilities ==
    { [i \in 1..Cardinality(S) |-> WindowPool[IncSeq(S)[i]]] :
        S \in { X \in SUBSET (1..Len(WindowPool)) : Cardinality(X) <= MaxWindows } }

\* The second doctor has no window or one of the first two.
SecondAvailabilities == { <<>>, <<WindowPool[1]>>, <<WindowPool[2]>> }

DoctorLists ==
    { << [id |-> DoctorIds[1], availability |-> a1],
         [id |-> DoctorIds[2], availability |-> a2] >> :
        a1 \in Availabilities, a2 \in SecondAvailabilities }

PatientLists ==
    UNION { { [i \in 1..n |-> [id |-> PatientIds[i], duration_minutes |-> du[i]]] :
                du \in [1..n -> Durations] } : n \in 1..MaxPatients }

Cases == { [doctors |-> ds, patients |-> ps] : ds \in DoctorLists, ps \in PatientLists }

----------------------------------------------------------------------------
(* Candidate generator: scheduler.py build_feasible_starts *)

\* Lines 62-67 for one (day, "HH:MM"): DAY_TO_OFFSET[day] + hhmm_to_minutes(hhmm),
\* a ValueError for an unknown day or an unparseable string.
engine_absolute(day, hhmm) ==
    LET r == hhmm_to_minutes(hhmm) IN
    IF ~KnownDay(day) \/ r.raised THEN [raised |-> TRUE, v |-> 0]
    ELSE [raised |-> FALSE, v |-> DAY_TO_OFFSET(day) + r.v]

\* One availability record -> absolute slot, or the ValueError of an unknown
\* day / unparseable time; a window with e <= s is dropped silently.
RECURSIVE DocSlots(_, _)
DocSlots(av, i) ==
    IF i > Len(av) THEN [raised |-> FALSE, slots |-> <<>>]
    ELSE LET s == hhmm_to_minutes(av[i].start)
             e == hhmm_to_minutes(av[i].end)
         IN IF ~KnownDay(av[i].day) \/ s.raised \/ e.raised
            THEN [raised |-> TRUE, slots |-> <<>>]
            ELSE LET rest == DocSlots(av, i + 1)
                     offset == DAY_TO_OFFSET(av[i].day)
                 IN IF rest.raised THEN rest
                    ELSE [raised |-> FALSE,
                          slots |-> (IF e.v > s.v
                                     THEN << <<offset + s.v, offset + e.v>> >>
                                     ELSE <<>>) \o rest.slots]

\* Mutant: the loop test written start + dur < e.
RECURSIVE StartsFrom_Strict(_, _, _, _)
StartsFrom_Strict(start, dur, e, stp) ==
    IF start + dur < e
    THEN << <<start, start + dur>> >> \o StartsFrom_Strict(start + stp, dur, e, stp)
    ELSE <<>>

\* Mutant: the interval appended is (start, start + step).
RECURSIVE StartsFrom_StepLong(_, _, _, _)
StartsFrom_StepLong(start, dur, e, stp) ==
    IF start + dur <= e
    THEN << <<start, start + stp>> >> \o StartsFrom_StepLong(start + stp, dur, e, stp)
    ELSE <<>>

\* The while loop of lines 82-85: start = s; while start + dur <= e: append; start += step
RECURSIVE StartsFrom(_, _, _, _)
StartsFrom(start, dur, e, stp) ==
    IF start + dur <= e
    THEN << <<start, start + dur>> >> \o StartsFrom(start + stp, dur, e, stp)
    ELSE <<>>

\* Mutant: the windows are visited from the last to the first.
RECURSIVE SlotCandidates_LastFirst(_, _, _, _)
SlotCandidates_LastFirst(slots, i, dur, stp) ==
    IF i > Len(slots) THEN <<>>
    ELSE SlotCandidates_LastFirst(slots, i + 1, dur, stp)
         \o StartsFrom(slots[i][1], dur, slots[i][2], stp)

\* Mutant: the windows are taken as one window from the first start to the
\* last end.
SlotCandidates_Hull(slots, i, dur, stp) ==
    IF i > Len(slots) THEN <<>>
    ELSE StartsFrom(slots[i][1], dur, slots[Len(slots)][2], stp)

\* for (s, e) in doc_intervals[did]: ... (lines 81-85)
RECURSIVE SlotCandidates(_, _, _, _)
SlotCandidates(slots, i, dur, stp) ==
    IF i > Len(slots) THEN <<>>
    ELSE StartsFrom(slots[i][1], dur, slots[i][2], stp)
         \o SlotCandidates(slots, i + 1, dur, stp)

IdsOf(records) == { records[i].id : i \in 1..Len(records) }

\* A dict built by assignment in list order: the last record with the key wins.
LastWith(records, id) ==
    records[CHOOSE i \in 1..Len(records) :
                /\ records[i].id = id
                /\ \A j \in (i + 1)..Len(records) : records[j].id # id]

\* feasible[pid][did] is appended to once per (patient, doctor) pair of the lists.
RECURSIVE PairCandidates(_, _, _, _, _, _, _)
PairCandidates(doctors, patients, pi, di, pid, did, f) ==
    IF pi > Len(patients) THEN <<>>
    ELSE IF di > Len(doctors) THEN PairCandidates(doctors, patients, pi + 1, 1, pid, did, f)
    ELSE (IF patients[pi].id = pid /\ doctors[di].id = did THEN f ELSE <<>>)
         \o PairCandidates(doctors, patients, pi, di + 1, pid, did, f)

\* Mutant: the lists of the previous call are kept and appended to.
FreshLists_Kept(doctors, patients) ==
    [pid \in IdsOf(patients) |->
        [did \in IdsOf(doctors) |->
            IF feasible # <<>> /\ pid \in DOMAIN feasible /\ did \in DOMAIN feasible[pid]
            THEN feasible[pid][did] ELSE <<>>]]

\* Lines 72-74: every call starts from new empty lists, one per (patient, doctor).
FreshLists(doctors, patients) ==
    [pid \in IdsOf(patients) |-> [did \in IdsOf(doctors) |-> <<>>]]

build_feasible_starts(doctors, patients, stp) ==
    LET slotsOf == [i \in 1..Len(doctors) |-> DocSlots(doctors[i].availability, 1)]
        fresh == FreshLists(doctors, patients)
        bad == \E i \in 1..Len(doctors) : slotsOf[i].raised
        durations == [pid \in IdsOf(patients) |-> LastWith(patients, pid).duration_minutes]
        doc_intervals ==
            [did \in IdsOf(doctors) |->
                slotsOf[CHOOSE i \in 1..Len(doctors) :
                            /\ doctors[i].id = did
                            /\ \A j \in (i + 1)..Len(doctors) : doctors[j].id # did].slots]
    IN IF bad
       THEN [raised |-> TRUE, feasible |-> <<>>, doc_intervals |-> <<>>, durations |-> <<>>]
       ELSE [raised |-> FALSE,
             feasible |->
                [pid \in IdsOf(patients) |->
                    [did \in IdsOf(doctors) |->
                        fresh[pid][did] \o
                        PairCandidates(doctors, patients, 1, 1, pid, did,
                            SlotCandidates(doc_intervals[did], 1, durations[pid], stp))]],
             doc_intervals |-> doc_intervals,
             durations |-> durations]

----------------------------------------------------------------------------
(* Optimization model and solving backend: scheduler.py solve, lines 95-135 *)

\* presence_vars in insertion order: one key (pid, did, idx) per candidate,
\* carrying the fixed start s and end e of its interval variable.
RECURSIVE KeysOfList(_, _, _, _)
KeysOfList(pid, did, cands, idx) ==
    IF idx > Len(cands) THEN <<>>
    ELSE << [pid |-> pid, did |-> did, idx |-> idx - 1,
             s |-> cands[idx][1], e |-> cands[idx][2]] >>
         \o KeysOfList(pid, did, cands, idx + 1)

RECURSIVE PresenceKeys(_, _, _, _, _)
PresenceKeys(doctors, patients, feas, pi, di) ==
    IF pi > Len(patients) THEN <<>>
    ELSE IF di > Len(doctors) THEN PresenceKeys(doctors, patients, feas, pi + 1, 1)
    ELSE KeysOfList(patients[pi].id, doctors[di].id,
                    feas[patients[pi].id][doctors[di].id], 1)
         \o PresenceKeys(doctors, patients, feas, pi, di + 1)

Range(seq) == { seq[i] : i \in 1..Len(seq) }

\* Mutant: the at-most-one constraints are not added.
AtMostOnePerPatient_Missing(A) == TRUE

\* model.Add(sum(vars_for_p) <= 1) for every patient (lines 116-120)
AtMostOnePerPatient(A) ==
    \A k1 \in A : \A k2 \in A : (k1.pid = k2.pid) => (k1 = k2)

\* Mutant: the intervals are grouped by patient instead of by doctor.
NoOverlapPerDoctor_ByPatient(A) ==
    \A k1 \in A : \A k2 \in A :
        (k1 # k2 /\ k1.pid = k2.pid) => (k1.e <= k2.s \/ k2.e <= k1.s)

\* model.AddNoOverlap(intervals_by_doc[did]) for every doctor (lines 123-125):
\* the present intervals of one doctor can be put in a sequence with
\* end_i <= start_{i+1}.
NoOverlapPerDoctor(A) ==
    \A k1 \in A : \A k2 \in A :
        (k1 # k2 /\ k1.did = k2.did) => (k1.e <= k2.s \/ k2.e <= k1.s)

ModelFeasible(A) == AtMostOnePerPatient(A) /\ NoOverlapPerDoctor(A)

\* Every assignment of the presence booleans that satisfies the constraints.
\* (The feasible assignments are closed under removing a key, so they are
\* enumerated by adding one key at a time.)
RECURSIVE FeasibleAssignments(_, _)
FeasibleAssignments(keys, n) ==
    IF n = 0 THEN { {} }
    ELSE LET prev == FeasibleAssignments(keys, n - 1)
         IN prev \cup { A \cup {keys[n]} : A \in { B \in prev : ModelFeasible(B \cup {keys[n]}) } }

\* model.Maximize(sum(presence_vars.values())) (line 128)
Objective(A) == Cardinality(A)

\* solver.Solve(model): OPTIMAL with a maximum assignment; with a time limit
\* also FEASIBLE with any assignment satisfying the constraints, or UNKNOWN
\* when the limit expires before a first assignment is found.
SolverOutcomes(keys) ==
    LET all == FeasibleAssignments(keys, Len(keys))
        best == { A \in all : \A B \in all : Objective(B) <= Objective(A) }
    IN { [status |-> "OPTIMAL", A |-> A] : A \in best }
       \cup { [status |-> "FEASIBLE", A |-> A] : A \in all }
       \cup { [status |-> "UNKNOWN", A |-> {}] }

----------------------------------------------------------------------------
(* Solution extractor: scheduler.py solve, lines 136-168 *)

NoField == [present |-> FALSE, v |-> 0]

IntField(n) == [present |-> TRUE, v |-> n]

NoObjective == [kind |-> "none", v |-> 0]

NumberObjective(n) == [kind |-> "number", v |-> n]

\* chosen[pid] = (did, s, s + durations[pid]) for every presence variable the
\* solver set, in the insertion order of presence_vars (lines 139-144): a
\* dict, so a patient keeps the place of its first key and the value of its last.
Chosen(keys, A, durations) ==
    LET picked == SelectSeq(keys, LAMBDA k : k \in A)
        first == { i \in 1..Len(picked) : \A j \in 1..(i - 1) : picked[j].pid # picked[i].pid }
        order == IncSeq(first)
        last(pid) == picked[CHOOSE i \in 1..Len(picked) :
                                /\ picked[i].pid = pid
                                /\ \A j \in (i + 1)..Len(picked) : picked[j].pid # pid]
    IN [n \in 1..Len(order) |->
            LET k == last(picked[order[n]].pid)
            IN [pid |-> k.pid, did |-> k.did, s |-> k.s, e |-> k.s + durations[k.pid]]]

\* One scheduled item (lines 147-158): the day comes from the start alone.
Render(c, durations) ==
    LET a == minutes_to_day_hhmm(c.s)
        b == minutes_to_day_hhmm(c.e)
    IN [raised |-> a.raised \/ b.raised,
        item |-> [has_keys |-> TRUE,
                  patient_id |-> c.pid, doctor_id |-> c.did,
                  day |-> a.day, start |-> a.hhmm, end |-> b.hhmm,
                  duration_minutes |-> IntField(durations[c.pid])]]

\* "HH:MM" < "HH:MM" as Python compares the two zero-padded strings.
StrLess(t1, t2) == t1.h < t2.h \/ (t1.h = t2.h /\ t1.m < t2.m)

\* key=lambda x: (x["doctor_id"], x["start"])
ScheduledLess(x, y) ==
    \/ IdRank(x.doctor_id) < IdRank(y.doctor_id)
    \/ (x.doctor_id = y.doctor_id /\ StrLess(x.start, y.start))

\* sorted(): stable; x goes before the first element that is greater.
InsertScheduled(sorted, x) ==
    LET after == { i \in 1..Len(sorted) : ScheduledLess(x, sorted[i]) }
        pos == IF after = {} THEN Len(sorted) + 1
               ELSE CHOOSE i \in after : \A j \in after : i <= j
    IN SubSeq(sorted, 1, pos - 1) \o <<x>> \o SubSeq(sorted, pos, Len(sorted))

RECURSIVE SortScheduled(_, _)
SortScheduled(items, n) ==
    IF n = 0 THEN <<>> ELSE InsertScheduled(SortScheduled(items, n - 1), items[n])

\* sorted(unscheduled) over patient ids
RECURSIVE SortIds(_)
SortIds(S) ==
    IF S = {} THEN <<>>
    ELSE LET x == CHOOSE y \in S : \A z \in S : IdRank(y) <= IdRank(z)
         IN <<x>> \o SortIds(S \ {x})

\* Mutant: the unscheduled list is not filtered by scheduled_ids.
Unscheduled_Unfiltered(patients, scheduled) == SortIds(IdsOf(patients))

\* [p["id"] for p in patients if p["id"] not in scheduled_ids], then sorted
Unscheduled(patients, scheduled) ==
    LET scheduled_ids == { scheduled[i].patient_id : i \in 1..Len(scheduled) }
        left == SelectSeq(patients, LAMBDA p : p.id \notin scheduled_ids)
    IN SortIds(Range([i \in 1..Len(left) |-> left[i].id]))
       \* the ids of a case are distinct, so the sorted list has no repetition

\* What solve returns for one answer (status, assignment) of the backend.
Extract(inst, b, keys, outcome) ==
    LET solved == outcome.status \in {"OPTIMAL", "FEASIBLE"}
        chosen == IF solved THEN Chosen(keys, outcome.A, b.durations) ELSE <<>>
        rendered == [i \in 1..Len(chosen) |-> Render(chosen[i], b.durations)]
        scheduled == [i \in 1..Len(chosen) |-> rendered[i].item]
    IN IF \E i \in 1..Len(chosen) : rendered[i].raised
       THEN [raised |-> TRUE, feasible |-> b.feasible, solution |-> <<>>]
       ELSE [raised |-> FALSE, feasible |-> b.feasible,
             solution |->
                [status |-> outcome.status,
                 objective_value |-> IF solved THEN NumberObjective(Objective(outcome.A))
                                     ELSE NoObjective,
                 scheduled |-> SortScheduled(scheduled, Len(scheduled)),
                 unscheduled |-> Unscheduled(inst.patients, scheduled)]]

\* solve(instance, step): every return the call can make, one per answer of
\* the solving backend; a ValueError is the return with raised = TRUE.
solve(inst, stp) ==
    LET b == build_feasible_starts(inst.doctors, inst.patients, stp) IN
    IF b.raised THEN { [raised |-> TRUE, feasible |-> <<>>, solution |-> <<>>] }
    ELSE LET keys == PresenceKeys(inst.doctors, inst.patients, b.feasible, 1, 1)
         IN { Extract(inst, b, keys, outcome) : outcome \in SolverOutcomes(keys) }

----------------------------------------------------------------------------
(* Verifier: verifier.py *)

\* A JSON array or object where an id string is expected: Python cannot hash
\* it, so using it as a dict key or set member raises TypeError.
ListValue == "[list]"

Hashable(v) == v # ListValue

\* One entry of errors[]: the message's context and kind instead of its text.
Err(ctx, idx, kind, id) == [ctx |-> ctx, idx |-> idx, kind |-> kind, id |-> id]

\* build_availability, one doctor's windows: the slots kept and the errors.
RECURSIVE AvailabilitySlots(_, _, _)
AvailabilitySlots(did, av, slot_idx) ==
    IF slot_idx > Len(av) THEN [slots |-> <<>>, errors |-> <<>>]
    ELSE LET slot == av[slot_idx]
             start == to_absolute_minutes(slot.day, slot.start)
             end == to_absolute_minutes(slot.day, slot.end)
             rest == AvailabilitySlots(did, av, slot_idx + 1)
         IN IF start.raised \/ end.raised
            THEN [slots |-> rest.slots,
                  errors |-> <<Err("availability", slot_idx - 1, "window_time", did)>> \o rest.errors]
            ELSE IF end.v <= start.v
            THEN [slots |-> rest.slots,
                  errors |-> <<Err("availability", slot_idx - 1, "window_order", did)>> \o rest.errors]
            ELSE [slots |-> << <<start.v, end.v>> >> \o rest.slots, errors |-> rest.errors]

\* A JSON object of the case is a record; a key it lacks is no field of it.
HasKey(obj, key) == key \in DOMAIN obj

\* The objects of the list that have all the keys, in list order.
WithKeys(records, keys) == SelectSeq(records, LAMBDA r : keys \subseteq DOMAIN r)

\* Lines 50-54 and 57-67: a doctor without id is an error and is skipped.
RECURSIVE AvailabilityErrors(_, _)
AvailabilityErrors(doctors, i) ==
    IF i > Len(doctors) THEN <<>>
    ELSE (IF ~HasKey(doctors[i], "id")
          THEN <<Err("doctor", i - 1, "missing_id", "")>>
          ELSE AvailabilitySlots(doctors[i].id, doctors[i].availability, 1).errors)
         \o AvailabilityErrors(doctors, i + 1)

\* build_availability(doctors) -> (availability, errors)
build_availability(doctors) ==
    LET named == WithKeys(doctors, {"id"}) IN
    [availability |->
        [did \in IdsOf(named) |->
            AvailabilitySlots(did, LastWith(named, did).availability, 1).slots],
     errors |-> AvailabilityErrors(doctors, 1)]

\* Mutant: only the case's duration is compared with end - start.
DurationErrors_CaseOnly(env, idx, item, actual_duration) ==
    IF item.patient_id \in DOMAIN env.patient_durations
       /\ actual_duration # env.patient_durations[item.patient_id]
    THEN <<Err("scheduled", idx, "duration_mismatch", "")>> ELSE <<>>

\* Lines 131-138: end - start against the case's duration of the patient
\* (when the case has the patient) and against the item's own
\* duration_minutes (when the item has one).
DurationErrors(env, idx, item, actual_duration) ==
    (IF item.patient_id \in DOMAIN env.patient_durations
        /\ actual_duration # env.patient_durations[item.patient_id]
     THEN <<Err("scheduled", idx, "duration_mismatch", "")>> ELSE <<>>)
    \o (IF item.duration_minutes.present /\ item.duration_minutes.v # actual_duration
        THEN <<Err("scheduled", idx, "duration_field", "")>> ELSE <<>>)

\* The body of the loop over scheduled_entries (lines 103-155) for one item.
\* acc = [raised, errors, seen, doc_intervals]; env = [patient_durations,
\* availability, enforce_step].
VerifyItem(env, acc, idx, item) ==
    LET E(kind) == Err("scheduled", idx, kind, "")
        start == to_absolute_minutes(item.day, item.start)
        end == to_absolute_minutes(item.day, item.end)
        pid == item.patient_id
        did == item.doctor_id
        refErrors ==
            (IF pid \notin DOMAIN env.patient_durations THEN <<E("unknown_patient")>> ELSE <<>>)
            \o (IF did \notin DOMAIN env.availability THEN <<E("unknown_doctor")>> ELSE <<>>)
        actual_duration == end.v - start.v
        slots == IF did \in DOMAIN env.availability THEN env.availability[did] ELSE <<>>
        checkErrors ==
            DurationErrors(env, idx, item, actual_duration)
            \o (IF env.enforce_step.present
                   /\ (start.v % env.enforce_step.v # 0 \/ end.v % env.enforce_step.v # 0)
                THEN <<E("step")>> ELSE <<>>)
            \o (IF slots # <<>>
                   /\ ~(\E k \in 1..Len(slots) : start.v >= slots[k][1] /\ end.v <= slots[k][2])
                THEN <<E("availability")>> ELSE <<>>)
            \o (IF pid \in acc.seen THEN <<E("duplicate")>> ELSE <<>>)
    IN IF acc.raised THEN acc
       ELSE IF ~item.has_keys
       THEN [acc EXCEPT !.errors = @ \o <<E("missing_keys")>>]
       ELSE IF ~Hashable(pid) \/ ~Hashable(did)
       THEN [acc EXCEPT !.raised = TRUE]
       ELSE IF start.raised \/ end.raised
       THEN [acc EXCEPT !.errors = @ \o refErrors \o <<E("time")>>]
       ELSE IF end.v <= start.v
       THEN [acc EXCEPT !.errors = @ \o refErrors \o <<E("end_before_start")>>]
       ELSE [raised |-> FALSE,
             errors |-> acc.errors \o refErrors \o checkErrors,
             seen |-> acc.seen \cup {pid},
             doc_intervals |-> Append(acc.doc_intervals,
                                      [did |-> did, start |-> start.v, end |-> end.v, pid |-> pid])]

RECURSIVE VerifyItems(_, _, _)
VerifyItems(env, items, n) ==
    IF n = 0 THEN [raised |-> FALSE, errors |-> <<>>, seen |-> {}, doc_intervals |-> <<>>]
    ELSE VerifyItem(env, VerifyItems(env, items, n - 1), n - 1, items[n])

\* intervals.sort(key=lambda x: x[0]): stable.
InsertInterval(sorted, x) ==
    LET after == { i \in 1..Len(sorted) : x.start < sorted[i].start }
        pos == IF after = {} THEN Len(sorted) + 1
               ELSE CHOOSE i \in after : \A j \in after : i <= j
    IN SubSeq(sorted, 1, pos - 1) \o <<x>> \o SubSeq(sorted, pos, Len(sorted))

RECURSIVE SortIntervals(_, _)
SortIntervals(ivs, n) ==
    IF n = 0 THEN <<>> ELSE InsertInterval(SortIntervals(ivs, n - 1), ivs[n])

\* Mutant: the comparison written curr_start <= prev_end.
RECURSIVE AdjacentOverlaps_Touching(_, _, _)
AdjacentOverlaps_Touching(did, sorted, i) ==
    IF i > Len(sorted) THEN <<>>
    ELSE (IF sorted[i].start <= sorted[i - 1].end
          THEN <<Err("doctor", i - 1, "overlap", did)>> ELSE <<>>)
         \o AdjacentOverlaps_Touching(did, sorted, i + 1)

\* Lines 160-167 for one doctor's sorted intervals: neighbours only.
RECURSIVE AdjacentOverlaps(_, _, _)
AdjacentOverlaps(did, sorted, i) ==
    IF i > Len(sorted) THEN <<>>
    ELSE (IF sorted[i].start < sorted[i - 1].end
          THEN <<Err("doctor", i - 1, "overlap", did)>> ELSE <<>>)
         \o AdjacentOverlaps(did, sorted, i + 1)

\* Lines 158-167: the doctors in the order doc_intervals first saw them.
RECURSIVE OverlapErrors(_, _, _)
OverlapErrors(doc_intervals, i, done) ==
    IF i > Len(doc_intervals) THEN <<>>
    ELSE LET did == doc_intervals[i].did
             mine == SelectSeq(doc_intervals, LAMBDA x : x.did = did)
         IN IF did \in done THEN OverlapErrors(doc_intervals, i + 1, done)
            ELSE AdjacentOverlaps(did, SortIntervals(mine, Len(mine)), 2)
                 \o OverlapErrors(doc_intervals, i + 1, done \cup {did})

\* Lines 170-176: the unscheduled list.
RECURSIVE UnscheduledErrors(_, _, _)
UnscheduledErrors(env, entries, n) ==
    IF n = 0 THEN [raised |-> FALSE, errors |-> <<>>, set |-> {}]
    ELSE LET prev == UnscheduledErrors(env, entries, n - 1)
             pid == entries[n]
         IN IF prev.raised THEN prev
            ELSE IF ~Hashable(pid) THEN [prev EXCEPT !.raised = TRUE]
            ELSE [raised |-> FALSE,
                  errors |-> prev.errors
                     \o (IF pid \in prev.set
                         THEN <<Err("unscheduled", n - 1, "listed_twice", pid)>> ELSE <<>>)
                     \o (IF pid \notin DOMAIN env.patient_durations
                         THEN <<Err("unscheduled", n - 1, "unknown_patient", pid)>> ELSE <<>>),
                  set |-> prev.set \cup {pid}]

\* isinstance(objective, (int, float)): a JSON number, the float NaN that
\* json.load reads from the literal NaN, and a JSON boolean (bool is a
\* subclass of int; True is 1 and False is 0).
IsIntOrFloat(objective) == objective.kind \in {"number", "nan", "bool"}

\* abs(float(objective) - n) > 1e-6; every comparison with NaN is False.
FarFrom(objective, n) == objective.kind # "nan" /\ objective.v # n

\* Lines 86-91: a patient without id or duration_minutes is an error and is
\* left out of patient_durations.
RECURSIVE PatientErrors(_, _)
PatientErrors(patients, idx) ==
    IF idx > Len(patients) THEN <<>>
    ELSE (IF ~HasKey(patients[idx], "id") \/ ~HasKey(patients[idx], "duration_minutes")
          THEN <<Err("patient", idx - 1, "missing_id_or_duration", "")>> ELSE <<>>)
         \o PatientErrors(patients, idx + 1)

\* verify(instance, solution, enforce_step); raised = TRUE is an exception
\* leaving verify.
verify(inst, sol, enforce_step) ==
    LET complete == WithKeys(inst.patients, {"id", "duration_minutes"})
        patient_durations ==
            [pid \in IdsOf(complete) |-> LastWith(complete, pid).duration_minutes]
        av == build_availability(inst.doctors)
        env == [patient_durations |-> patient_durations,
                availability |-> av.availability,
                enforce_step |-> enforce_step]
        loop == VerifyItems(env, sol.scheduled, Len(sol.scheduled))
        uns == UnscheduledErrors(env, sol.unscheduled, Len(sol.unscheduled))
        scheduled_set == loop.seen
        all_patients == DOMAIN patient_durations
        missing == (all_patients \ scheduled_set) \ uns.set
        both == scheduled_set \cap uns.set
        objective == sol.objective_value
        errors ==
            PatientErrors(inst.patients, 1)
            \o av.errors
            \o loop.errors
            \o OverlapErrors(loop.doc_intervals, 1, {})
            \o uns.errors
            \o (IF missing # {} THEN <<Err("solution", 0, "missing", SortIds(missing))>> ELSE <<>>)
            \o (IF both # {} THEN <<Err("solution", 0, "both", SortIds(both))>> ELSE <<>>)
            \o (IF objective.kind = "none" THEN <<>>
                ELSE IF ~IsIntOrFloat(objective)
                THEN <<Err("solution", 0, "objective_type", "")>>
                ELSE IF FarFrom(objective, Cardinality(scheduled_set))
                THEN <<Err("solution", 0, "objective_value", "")>>
                ELSE <<>>)
    IN IF loop.raised \/ uns.raised
       THEN [raised |-> TRUE, valid |-> FALSE, errors |-> <<>>,
             stats |-> [total_patients |-> 0, scheduled |-> 0, unscheduled |-> 0]]
       ELSE [raised |-> FALSE,
             valid |-> (Len(errors) = 0),
             errors |-> errors,
             stats |-> [total_patients |-> Cardinality(all_patients),
                        scheduled |-> Cardinality(scheduled_set),
                        unscheduled |-> Cardinality(uns.set)]]

----------------------------------------------------------------------------
(* The engine followed by the verifier *)

NoSolution == [status |-> "", objective_value |-> NoObjective,
               scheduled |-> <<>>, unscheduled |-> <<>>]

NoResult == [raised |-> FALSE, valid |-> FALSE, errors |-> <<>>,
             stats |-> [total_patients |-> 0, scheduled |-> 0, unscheduled |-> 0]]

Init ==
    /\ pc = "start"
    /\ instance \in Cases
    /\ step = 0
    /\ feasible = <<>>
    /\ solution = NoSolution
    /\ result = NoResult
    /\ calls = <<>>

\* python src/scheduler.py --input case --step stp [--time_limit t]
Solve ==
    /\ pc = "start"
    /\ \E stp \in Steps : \E r \in solve(instance, stp) :
        /\ step' = stp
        /\ pc' = IF r.raised THEN "raised" ELSE "solved"
        /\ feasible' = r.feasible
        /\ solution' = IF r.raised THEN NoSolution ELSE r.solution
    /\ UNCHANGED <<instance, result, calls>>

\* python src/verifier.py --case case --solution solution --step stp, on the
\* solution the engine wrote for that case with the same step.
VerifyEngine ==
    /\ pc = "solved"
    /\ result' = verify(instance, solution, IntField(step))
    /\ pc' = "verified"
    /\ UNCHANGED <<instance, step, feasible, solution, calls>>

Next == Solve \/ VerifyEngine

Spec == Init /\ [][Next]_vars

----------------------------------------------------------------------------
(* The verifier on solutions from any source *)

VerifierDoctorLists ==
    { << [id |-> DoctorIds[1], availability |-> a1],
         [id |-> DoctorIds[2], availability |-> a2] >> :
        a1 \in { <<WindowPool[1]>>, <<WindowPool[1], WindowPool[2]>> },
        a2 \in { <<>>, <<WindowPool[1]>> } }

VerifierPatientLists ==
    { << [id |-> "p1", duration_minutes |-> 60] >>,
      << [id |-> "p1", duration_minutes |-> 60], [id |-> "p2", duration_minutes |-> 30] >> }

VerifierCases ==
    { [doctors |-> ds, patients |-> ps] : ds \in VerifierDoctorLists, ps \in VerifierPatientLists }

Item(pid, did, day, start, end, dur) ==
    [has_keys |-> TRUE, patient_id |-> pid, doctor_id |-> did,
     day |-> day, start |-> start, end |-> end, duration_minutes |-> dur]

\* A scheduled entry that is not an object, or lacks one of the five keys.
NotAnItem ==
    [has_keys |-> FALSE, patient_id |-> "", doctor_id |-> "",
     day |-> "", start |-> BadTime, end |-> BadTime, duration_minutes |-> NoField]

ItemPool ==
    { Item("p1", "d1", "Monday", T(9, 0), T(10, 0), IntField(60)),
      Item("p2", "d1", "Monday", T(9, 30), T(10, 0), NoField),
      Item("p2", "d2", "Monday", T(9, 0), T(9, 30), IntField(30)),
      Item("p1", "d2", "Monday", T(9, 0), T(10, 0), IntField(60)),
      Item("p1", "d1", "Monday", T(10, 0), T(9, 0), IntField(60)),
      Item("p2", "d1", "Monday", T(9, 15), T(9, 45), IntField(45)),
      Item("p1", "d1", "Monday", T(11, 0), T(12, 0), IntField(60)),
      Item("p2", "d1", "Monday", T(9, 0), T(10, 0), NoField),
      Item("p1", "d1", "Monday", BadTime, T(10, 0), IntField(60)),
      Item("p1", "d1", "Funday", T(9, 0), T(10, 0), IntField(60)),
      Item("px", "d1", "Monday", T(9, 0), T(10, 0), NoField),
      Item("p1", "dx", "Monday", T(9, 0), T(10, 0), IntField(60)),
      Item("p1", "d1", "Monday", T(9, 0), T(10, 0), IntField(45)),
      Item(ListValue, "d1", "Monday", T(9, 0), T(10, 0), IntField(60)),
      Item("p1", ListValue, "Monday", T(9, 0), T(10, 0), IntField(60)),
      NotAnItem }

ScheduledLists(n) == UNION { [1..k -> ItemPool] : k \in 0..n }

UnscheduledLists ==
    { <<>>, <<"p2">>, <<"p1", "p2">>, <<"p2", "p2">>, <<"px">>, <<ListValue>> }

\* null, 0, 1, a string, NaN and true
ObjectiveValues ==
    { NoObjective, NumberObjective(0), NumberObjective(1), [kind |-> "string", v |-> 0],
      [kind |-> "nan", v |-> 0], [kind |-> "bool", v |-> 1] }

\* The patients of the case that no scheduled object names, sorted.
Remaining(inst, sched) ==
    SortIds(IdsOf(WithKeys(inst.patients, {"id"}))
            \ { sched[i].patient_id : i \in { j \in 1..Len(sched) : sched[j].has_keys } })

\* Placements on doctor d1 that nest, overlap, touch or lie apart.
StackPool ==
    { Item("p1", "d1", "Monday", T(9, 0), T(10, 0), IntField(60)),
      Item("p2", "d1", "Monday", T(9, 15), T(9, 45), IntField(30)),
      Item("p2", "d1", "Monday", T(9, 30), T(10, 0), IntField(30)),
      Item("p2", "d1", "Monday", T(10, 0), T(10, 30), IntField(30)),
      Item("p1", "d1", "Monday", T(11, 0), T(12, 0), IntField(60)) }

\* The solutions submitted: every scheduled list up to MaxItems with the
\* remaining patients unscheduled and no objective, every list of
\* MaxItems + 1 placements on one doctor likewise, and every short list with
\* every unscheduled list and objective value above.
Submissions(inst) ==
    { [status |-> "OPTIMAL", objective_value |-> NoObjective,
       scheduled |-> sched, unscheduled |-> Remaining(inst, sched)] :
         sched \in ScheduledLists(MaxItems) }
    \cup
    { [status |-> "OPTIMAL", objective_value |-> NoObjective,
       scheduled |-> sched, unscheduled |-> Remaining(inst, sched)] :
         sched \in [1..(MaxItems + 1) -> StackPool] }
    \cup
    { [status |-> "OPTIMAL", objective_value |-> obj,
       scheduled |-> sched, unscheduled |-> uns] :
         sched \in ScheduledLists(1), uns \in UnscheduledLists, obj \in ObjectiveValues }

\* --step absent (no alignment check) or 30
EnforceSteps == { NoField, IntField(30) }

InitVerify ==
    /\ pc = "submit"
    /\ instance \in VerifierCases
    /\ step = 0
    /\ feasible = <<>>
    /\ solution = NoSolution
    /\ result = NoResult
    /\ calls = <<>>

\* python src/verifier.py --case case --solution sol [--step es]
Submit ==
    /\ pc = "submit"
    /\ \E sol \in Submissions(instance) : \E es \in EnforceSteps :
        /\ solution' = sol
        /\ step' = es.v
        /\ result' = verify(instance, sol, es)
        /\ pc' = "checked"
    /\ UNCHANGED <<instance, feasible, calls>>

NextVerify == Submit

SpecVerify == InitVerify /\ [][NextVerify]_vars

----------------------------------------------------------------------------
(* The candidate generator called repeatedly on one case *)

GenWindowPool ==
    << Window("Monday", T(9, 0), T(10, 0)),
       Window("Monday", T(9, 10), T(9, 50)),
       Window("Tuesday", T(9, 0), T(9, 30)),
       Window("Monday", T(10, 0), T(9, 0)),
       Window("Funday", T(9, 0), T(10, 0)) >>

GenAvailabilities ==
    { [i \in 1..Cardinality(S) |-> GenWindowPool[IncSeq(S)[i]]] :
        S \in { X \in SUBSET (1..Len(GenWindowPool)) : Cardinality(X) <= MaxWindows } }

GenDurations == {20, 30}

GenSteps == {10, 15, 20, 30}

GenCases ==
    { [doctors |-> << [id |-> DoctorIds[1], availability |-> a1],
                      [id |-> DoctorIds[2], availability |-> a2] >>,
       patients |-> [i \in 1..n |-> [id |-> PatientIds[i], duration_minutes |-> du[i]]]] :
        a1 \in GenAvailabilities, a2 \in { <<>>, <<GenWindowPool[1]>> },
        n \in 1..MaxPatients, du \in [1..MaxPatients -> GenDurations] }

\* Cases whose only patient has a duration_minutes of 0 or below.
NonPositiveDurations == {0, -30}

NonPositiveCases ==
    { [doctors |-> << [id |-> DoctorIds[1], availability |-> a1],
                      [id |-> DoctorIds[2], availability |-> <<>>] >>,
       patients |-> << [id |-> PatientIds[1], duration_minutes |-> d] >>] :
        a1 \in GenAvailabilities, d \in NonPositiveDurations }

InitGen ==
    /\ pc = "generate"
    /\ instance \in GenCases \cup NonPositiveCases
    /\ step = 0
    /\ feasible = <<>>
    /\ solution = NoSolution
    /\ result = NoResult
    /\ calls = <<>>

\* One more call build_feasible_starts(doctors, patients, stp) on the case;
\* prior tells whether the call before it was on the case or on another one.
Generate ==
    /\ pc \in {"generate", "other"}
    /\ Len(calls) < MaxCalls
    /\ \E stp \in GenSteps :
        LET b == build_feasible_starts(instance.doctors, instance.patients, stp) IN
        /\ step' = stp
        /\ feasible' = b.feasible
        /\ calls' = Append(calls, [step |-> stp, raised |-> b.raised,
                                   feasible |-> b.feasible, prior |-> pc])
    /\ pc' = "generate"
    /\ UNCHANGED <<instance, solution, result>>

\* Another case with the same ids; it is generated with solve's default step.
OtherCase ==
    [doctors |-> << [id |-> DoctorIds[1], availability |-> <<GenWindowPool[1]>>],
                    [id |-> DoctorIds[2], availability |-> <<GenWindowPool[1]>>] >>,
     patients |-> [i \in 1..Len(PatientIds) |-> [id |-> PatientIds[i], duration_minutes |-> 20]]]

DefaultStep == 5

\* A call of build_feasible_starts on another case with another step, made
\* between two calls on the case.
GenerateOther ==
    /\ pc = "generate"
    /\ Len(calls) >= 1
    /\ Len(calls) < MaxCalls
    /\ LET b == build_feasible_starts(OtherCase.doctors, OtherCase.patients, DefaultStep) IN
        /\ step' = DefaultStep
        /\ feasible' = b.feasible
    /\ pc' = "other"
    /\ UNCHANGED <<instance, solution, result, calls>>

NextGen == Generate \/ GenerateOther

SpecGen == InitGen /\ [][NextGen]_vars

----------------------------------------------------------------------------
(* Properties of the engine and of the engine-verifier round trip *)

Emitted == pc \in {"solved", "verified"}

Solved == Emitted /\ solution.status \in {"OPTIMAL", "FEASIBLE"}

\* day_index * 1440 + hh * 60 + mm of a displayed (day, "HH:MM")
Absolute(day, hhmm) == (DayIndex(day) - 1) * 1440 + hhmm.h * 60 + hhmm.m

ItemStart(item) == Absolute(item.day, item.start)

ItemEnd(item) == Absolute(item.day, item.end)

\* The windows of the case as the data model defines them: a known day, both
\* times within 00:00-23:59, end after start.
ValidWindow(w) ==
    /\ KnownDay(w.day)
    /\ w.start.parses /\ w.start.h \in 0..23 /\ w.start.m \in 0..59
    /\ w.end.parses /\ w.end.h \in 0..23 /\ w.end.m \in 0..59
    /\ Absolute(w.day, w.end) > Absolute(w.day, w.start)

WellFormedCase ==
    /\ \A i \in 1..Len(instance.doctors) :
          \A k \in 1..Len(instance.doctors[i].availability) :
              ValidWindow(instance.doctors[i].availability[k])
    /\ \A i \in 1..Len(instance.patients) : instance.patients[i].duration_minutes > 0

\* C1: soundness round trip.  For every well-formed case and every step >= 1,
\* the solution solve(case, step) returns makes verify(case, solution,
\* enforce_step = step) return valid = true with no errors.
C1_SoundnessRoundTrip ==
    (pc = "verified" /\ WellFormedCase) =>
        (~result.raised /\ result.valid /\ result.errors = <<>>)

Occurrences(seq, x) == Cardinality({ i \in 1..Len(seq) : seq[i] = x })

ScheduledIds == [i \in 1..Len(solution.scheduled) |-> solution.scheduled[i].patient_id]

\* C2: partition.  In every solution solve emits (any status), every patient
\* id of the case occurs exactly once across scheduled[].patient_id and
\* unscheduled together.
C2_Partition ==
    Emitted =>
        \A pid \in IdsOf(instance.patients) :
            Occurrences(ScheduledIds, pid) + Occurrences(solution.unscheduled, pid) = 1

C2_Witness ==
    /\ pc = "solved"
    /\ Len(solution.scheduled) >= 1
    /\ Len(solution.unscheduled) >= 1

\* C3: no overlap.  In every solution with status OPTIMAL or FEASIBLE, two
\* scheduled placements of the same doctor have disjoint absolute-minute
\* intervals: end_i <= start_j or end_j <= start_i.
C3_NoOverlap ==
    Solved =>
        \A i \in 1..Len(solution.scheduled) : \A j \in 1..Len(solution.scheduled) :
            (i # j /\ solution.scheduled[i].doctor_id = solution.scheduled[j].doctor_id) =>
                \/ ItemEnd(solution.scheduled[i]) <= ItemStart(solution.scheduled[j])
                \/ ItemEnd(solution.scheduled[j]) <= ItemStart(solution.scheduled[i])

C3_Witness ==
    /\ pc = "solved"
    /\ solution.status = "FEASIBLE"
    /\ \E i \in 1..Len(solution.scheduled) : \E j \in 1..Len(solution.scheduled) :
          /\ i # j
          /\ solution.scheduled[i].doctor_id = solution.scheduled[j].doctor_id

\* The availability windows of a doctor in absolute weekly minutes, as the
\* engine reads them.
DoctorWindows(did) ==
    LET av == LastWith(instance.doctors, did).availability
    IN { << DAY_TO_OFFSET(av[k].day) + av[k].start.h * 60 + av[k].start.m,
            DAY_TO_OFFSET(av[k].day) + av[k].end.h * 60 + av[k].end.m >> : k \in 1..Len(av) }

\* C4: containment.  Every scheduled placement solve emits lies inside one
\* availability window of its own doctor, and its displayed (day, start, end)
\* denote that interval, with end - start = the patient's duration_minutes.
C4_Containment ==
    Emitted =>
        \A i \in 1..Len(solution.scheduled) :
            LET item == solution.scheduled[i] IN
            /\ \E w \in DoctorWindows(item.doctor_id) :
                  w[1] <= ItemStart(item) /\ ItemEnd(item) <= w[2]
            /\ ItemEnd(item) - ItemStart(item)
                  = LastWith(instance.patients, item.patient_id).duration_minutes

\* C5: objective correctness.  With status OPTIMAL or FEASIBLE,
\* objective_value is the number of entries of scheduled, which is the number
\* of distinct scheduled patient ids.
C5_Objective ==
    Solved =>
        /\ solution.objective_value.kind = "number"
        /\ solution.objective_value.v = Len(solution.scheduled)
        /\ solution.objective_value.v = Cardinality(Range(ScheduledIds))

C5_Witness ==
    /\ pc = "solved"
    /\ solution.status = "FEASIBLE"
    /\ solution.objective_value.v = 1
    /\ Len(solution.unscheduled) = 1

\* Every generated candidate (patient, doctor, start, end) of the last build.
CandidateSet ==
    UNION { { [pid |-> pd[1], did |-> pd[2],
               s |-> feasible[pd[1]][pd[2]][i][1], e |-> feasible[pd[1]][pd[2]][i][2]] :
                 i \in 1..Len(feasible[pd[1]][pd[2]]) } :
            pd \in IdsOf(instance.patients) \X IdsOf(instance.doctors) }

Unplaced == [pid |-> "", did |-> "", s |-> 0, e |-> 0]

\* A selection gives each patient one of its candidates or none, so that the
\* candidates given to the patients of one doctor are pairwise disjoint.
Selections ==
    { f \in [IdsOf(instance.patients) -> CandidateSet \cup {Unplaced}] :
        /\ \A p \in DOMAIN f : f[p] = Unplaced \/ f[p].pid = p
        /\ \A p \in DOMAIN f : \A q \in DOMAIN f :
              (p # q /\ f[p] # Unplaced /\ f[q] # Unplaced /\ f[p].did = f[q].did) =>
                  (f[p].e <= f[q].s \/ f[q].e <= f[p].s) }

Placed(f) == Cardinality({ p \in DOMAIN f : f[p] # Unplaced })

TrueMaximum ==
    LET sizes == { Placed(f) : f \in Selections }
    IN CHOOSE n \in sizes : \A k \in sizes : k <= n

OneHour == <<Window("Monday", T(9, 0), T(10, 0))>>

Availability(i) == instance.doctors[i].availability

AllPatientsTake(d) ==
    \A i \in 1..Len(instance.patients) : instance.patients[i].duration_minutes = d

\* The length of the longest window of the case, 0 when there is none.
LongestWindow ==
    LET lens == { w[2] - w[1] : w \in UNION { DoctorWindows(did) : did \in IdsOf(instance.doctors) } }
    IN IF lens = {} THEN 0 ELSE CHOOSE n \in lens : \A k \in lens : k <= n

\* C6: optimality.  With status OPTIMAL, objective_value is the maximum number
\* of candidates a selection can hold (at most one per patient, no two
\* overlapping on a doctor): 1 for one 60-minute window and two 60-minute
\* patients, 2 when both doctors have that window; and a patient longer than
\* every window is unscheduled in every emitted solution.
C6_Optimality ==
    /\ (Emitted /\ solution.status = "OPTIMAL") =>
          /\ solution.objective_value.v = TrueMaximum
          /\ (Len(instance.patients) = 2 /\ AllPatientsTake(60)
              /\ Availability(1) = OneHour /\ Availability(2) = <<>>)
                 => solution.objective_value.v = 1
          /\ (Len(instance.patients) = 2 /\ AllPatientsTake(60)
              /\ Availability(1) = OneHour /\ Availability(2) = OneHour)
                 => solution.objective_value.v = 2
    /\ Emitted =>
          \A i \in 1..Len(instance.patients) :
              instance.patients[i].duration_minutes > LongestWindow =>
                  /\ Occurrences(solution.unscheduled, instance.patients[i].id) = 1
                  /\ Occurrences(ScheduledIds, instance.patients[i].id) = 0

C6_Witness ==
    /\ pc = "solved"
    /\ solution.status = "OPTIMAL"
    /\ Len(instance.patients) = 2 /\ AllPatientsTake(60)
    /\ Availability(1) = OneHour /\ Availability(2) = <<>>
    /\ solution.objective_value.v = 1
    /\ Len(solution.unscheduled) = 1

\* The string is two colon-separated integers, hour in [0,23], minute in [0,59].
TimeOk(t) == t.parses /\ t.h \in 0..23 /\ t.m \in 0..59

\* Both conversions of the window, (day, start) and (day, end), are defined.
Convertible(w) == KnownDay(w.day) /\ TimeOk(w.start) /\ TimeOk(w.end)

\* C15: time conversion rejects bad values.  Every conversion of (day,
\* "HH:MM") fails when the day is unknown, the hour is outside [0,23], the
\* minute is outside [0,59] or the string does not parse: the engine emits no
\* solution for a case with such a window (it raises before the model is
\* built, so no candidates are kept either), and the verifier reports each
\* such window.
C15_TimeRejected ==
    /\ Emitted =>
          \A i \in 1..Len(instance.doctors) :
              \A k \in 1..Len(instance.doctors[i].availability) :
                  Convertible(instance.doctors[i].availability[k])
    /\ pc = "raised" => feasible = <<>>
    /\ pc = "verified" =>
          \A i \in 1..Len(instance.doctors) :
              \A k \in 1..Len(instance.doctors[i].availability) :
                  ~Convertible(instance.doctors[i].availability[k]) =>
                      \E n \in 1..Len(result.errors) :
                          /\ result.errors[n].ctx = "availability"
                          /\ result.errors[n].kind = "window_time"
                          /\ result.errors[n].idx = k - 1
                          /\ result.errors[n].id = instance.doctors[i].id

\* C20: output ordering.  In every solution solve emits, scheduled is sorted
\* by (doctor_id, start): the placements of one doctor are contiguous and in
\* increasing start time over the week (Monday 10:00 before Tuesday 09:00),
\* and unscheduled is sorted by id.
C20_OutputOrdering ==
    Emitted =>
        /\ \A i \in 1..Len(solution.scheduled) : \A j \in 1..Len(solution.scheduled) :
              i < j =>
                 \/ IdRank(solution.scheduled[i].doctor_id) < IdRank(solution.scheduled[j].doctor_id)
                 \/ /\ solution.scheduled[i].doctor_id = solution.scheduled[j].doctor_id
                    /\ ItemStart(solution.scheduled[i]) <= ItemStart(solution.scheduled[j])
        /\ \A i \in 1..Len(solution.unscheduled) : \A j \in 1..Len(solution.unscheduled) :
              i < j => IdRank(solution.unscheduled[i]) < IdRank(solution.unscheduled[j])

----------------------------------------------------------------------------
(* Properties of the verifier *)

Checked == pc = "checked" /\ ~result.raised

\* The scheduled entries that are objects with the five keys and string ids.
Items == { i \in 1..Len(solution.scheduled) :
             /\ solution.scheduled[i].has_keys
             /\ Hashable(solution.scheduled[i].patient_id)
             /\ Hashable(solution.scheduled[i].doctor_id) }

\* (day, start, end) of the item are a known day and two times of the day.
Timed(item) ==
    /\ KnownDay(item.day)
    /\ item.start.parses /\ item.start.h \in 0..23 /\ item.start.m \in 0..59
    /\ item.end.parses /\ item.end.h \in 0..23 /\ item.end.m \in 0..59

\* The item's interval lies within one availability window of the doctor it names.
Contained(item) ==
    /\ item.doctor_id \in IdsOf(instance.doctors)
    /\ \E w \in DoctorWindows(item.doctor_id) :
          ItemStart(item) >= w[1] /\ ItemEnd(item) <= w[2]

\* errors[] holds an entry of one of the kinds for scheduled[i] (i from 1)
Reported(i, kinds) ==
    \E k \in 1..Len(result.errors) :
        /\ result.errors[k].ctx = "scheduled"
        /\ result.errors[k].idx = i - 1
        /\ result.errors[k].kind \in kinds

\* C7: availability containment.  Whenever verify returns valid = true, every
\* scheduled item lies within one availability window of the doctor it names;
\* a placement on a doctor with no window containing it (a doctor whose window
\* list is empty included) always produces an error.
C7_VerifierContainment ==
    Checked =>
        /\ result.valid => \A i \in Items : Contained(solution.scheduled[i])
        /\ \A i \in Items :
              (Timed(solution.scheduled[i])
               /\ solution.scheduled[i].doctor_id \in IdsOf(instance.doctors)
               /\ ~Contained(solution.scheduled[i])) => Len(result.errors) > 0

PatientKnown(item) == item.patient_id \in IdsOf(instance.patients)

DoctorKnown(item) == item.doctor_id \in IdsOf(instance.doctors)

\* The item's start and end are times with end after start.
ProperInterval(item) == Timed(item) /\ ItemEnd(item) > ItemStart(item)

\* C8: no short-circuit.  For every scheduled item that has its keys and for
\* each check the item violates (reference integrity, duration consistency,
\* step alignment, availability containment, uniqueness), errors[] holds an
\* error for that item and that check, whatever was found before.  (Duration,
\* step and containment are asked only of an item whose times give a proper
\* interval, containment only of a doctor that has windows, uniqueness only
\* against an earlier item with a proper interval.)
C8_NoShortCircuit ==
    Checked =>
        \A i \in Items :
            LET item == solution.scheduled[i] IN
            /\ ~PatientKnown(item) => Reported(i, {"unknown_patient"})
            /\ ~DoctorKnown(item) => Reported(i, {"unknown_doctor"})
            /\ (ProperInterval(item) /\ PatientKnown(item)
                /\ ItemEnd(item) - ItemStart(item)
                     # LastWith(instance.patients, item.patient_id).duration_minutes)
                  => Reported(i, {"duration_mismatch"})
            /\ (ProperInterval(item) /\ item.duration_minutes.present
                /\ item.duration_minutes.v # ItemEnd(item) - ItemStart(item))
                  => Reported(i, {"duration_field"})
            /\ (ProperInterval(item) /\ step # 0
                /\ (ItemStart(item) % step # 0 \/ ItemEnd(item) % step # 0))
                  => Reported(i, {"step"})
            /\ (ProperInterval(item) /\ DoctorKnown(item)
                /\ DoctorWindows(item.doctor_id) # {} /\ ~Contained(item))
                  => Reported(i, {"availability"})
            /\ (\E j \in Items : /\ j < i
                                 /\ ProperInterval(solution.scheduled[j])
                                 /\ solution.scheduled[j].patient_id = item.patient_id)
                  => Reported(i, {"duplicate"})

\* C9: verify never raises on a bad solution.  For a well-formed case and any
\* solution value, verify returns a result (valid = false with the violations
\* in errors[] when the solution is bad) instead of raising.
C9_NeverRaises ==
    pc = "checked" =>
        /\ ~result.raised
        /\ result.valid = (Len(result.errors) = 0)

\* The scheduled items verify appends to doc_intervals (line 155).
Accepted == { i \in Items : ProperInterval(solution.scheduled[i]) }

\* Items i and j name the same doctor and their [start, end) intersect.
Overlapping(i, j) ==
    LET x == solution.scheduled[i]
        y == solution.scheduled[j]
    IN /\ i # j
       /\ x.doctor_id = y.doctor_id
       /\ ItemStart(x) < ItemEnd(y)
       /\ ItemStart(y) < ItemEnd(x)

OverlapReported == \E k \in 1..Len(result.errors) : result.errors[k].kind = "overlap"

\* C11: verifier per-doctor no-overlap.  verify reports an overlap error (so
\* valid = false) whenever two accepted intervals of one doctor overlap in
\* [start, end), wherever they stand in the list sorted by start, and reports
\* none when no two accepted intervals of a doctor overlap; intervals that
\* merely touch are not an overlap.
C11_VerifierNoOverlap ==
    Checked =>
        /\ (\E i \in Accepted : \E j \in Accepted : Overlapping(i, j))
              <=> OverlapReported
        /\ OverlapReported => ~result.valid

\* Three accepted placements of one doctor: the first and the last of the
\* sorted list overlap, and a solution whose placements only touch.
C11_Witness ==
    /\ Checked
    /\ Len(solution.scheduled) = 3
    /\ Accepted = {1, 2, 3}
    /\ solution.scheduled[1].start = T(9, 0) /\ solution.scheduled[1].end = T(10, 0)
    /\ solution.scheduled[2].start = T(9, 15)
    /\ solution.scheduled[3].start = T(9, 30)
    /\ Overlapping(1, 3)
    /\ OverlapReported

\* The patient ids the scheduled list names, item by item.
ScheduledNames == [k \in 1..Cardinality(Items) |-> solution.scheduled[IncSeq(Items)[k]].patient_id]

\* errors[] holds the coverage message of that kind and it lists pid.
Listed(kind, pid) ==
    \E k \in 1..Len(result.errors) :
        /\ result.errors[k].ctx = "solution"
        /\ result.errors[k].kind = kind
        /\ pid \in Range(result.errors[k].id)

\* C12: verifier coverage / partition.  Whenever verify returns valid = true,
\* the scheduled patient ids and the unscheduled ids are disjoint, hold no id
\* twice, hold no id absent from the case, and together are the case's
\* patient ids; every id in neither list is reported as missing and every id
\* in both lists is reported as listed in both.
C12_VerifierCoverage ==
    Checked =>
        LET sched == Range(ScheduledNames)
            uns == Range(solution.unscheduled)
            all == IdsOf(instance.patients)
        IN /\ result.valid =>
                /\ Items = 1..Len(solution.scheduled)
                /\ sched \cap uns = {}
                /\ \A pid \in sched : Occurrences(ScheduledNames, pid) = 1
                /\ \A pid \in uns : Occurrences(solution.unscheduled, pid) = 1
                /\ sched \cup uns = all
           /\ \A pid \in all \ (sched \cup uns) : Listed("missing", pid)
           /\ \A pid \in sched \cap uns : Listed("both", pid)

\* C13: verifier duration consistency.  For every scheduled item whose times
\* parse, verify reports an error for that item when end - start differs from
\* the case's duration_minutes of its patient (the duration-mismatch error
\* when end is after start, the end-before-start error otherwise), and when
\* the item's own duration_minutes differs from end - start; an item with
\* duration_minutes = 45 and end - start = 60 gives valid = false with the
\* duration-field error for that item.
C13_VerifierDuration ==
    Checked =>
        \A i \in Items :
            LET item == solution.scheduled[i]
                actual == ItemEnd(item) - ItemStart(item)
            IN Timed(item) =>
                /\ (PatientKnown(item)
                    /\ actual # LastWith(instance.patients, item.patient_id).duration_minutes)
                      => /\ Reported(i, {"duration_mismatch", "end_before_start"})
                         /\ ProperInterval(item) => Reported(i, {"duration_mismatch"})
                         /\ ~result.valid
                /\ (item.duration_minutes.present /\ item.duration_minutes.v # actual)
                      => /\ Reported(i, {"duration_field", "end_before_start"})
                         /\ ProperInterval(item) => Reported(i, {"duration_field"})
                         /\ ~result.valid

C13_Witness ==
    /\ Checked
    /\ Len(solution.scheduled) = 1
    /\ solution.scheduled[1].duration_minutes = IntField(45)
    /\ ItemEnd(solution.scheduled[1]) - ItemStart(solution.scheduled[1]) = 60
    /\ PatientKnown(solution.scheduled[1])
    /\ LastWith(instance.patients, solution.scheduled[1].patient_id).duration_minutes = 60
    /\ Reported(1, {"duration_field"})
    /\ ~Reported(1, {"duration_mismatch"})
    /\ ~result.valid

\* C14: verifier objective consistency.  Whenever the solution has a non-null
\* objective_value, verify reports an error unless it is a number equal to
\* the number of distinct patient ids in the solution's scheduled items; the
\* stats (total patients, scheduled count, unscheduled count) are returned
\* whether or not the solution is valid.
C14_VerifierObjective ==
    Checked =>
        /\ (/\ solution.objective_value.kind # "none"
            /\ ~(/\ solution.objective_value.kind = "number"
                 /\ solution.objective_value.v = Cardinality(Range(ScheduledNames))))
              => Len(result.errors) > 0
        /\ result.stats.total_patients = Cardinality(IdsOf(instance.patients))
        /\ result.stats.scheduled
              = Cardinality({ solution.scheduled[i].patient_id : i \in Accepted })
        /\ result.stats.unscheduled = Cardinality(Range(solution.unscheduled))

----------------------------------------------------------------------------
(* Properties of the candidate generator *)

\* Every window start, window end and patient duration is a multiple of n.
BoundariesMultiplesOf(n) ==
    /\ \A did \in IdsOf(instance.doctors) : \A w \in DoctorWindows(did) :
          w[1] % n = 0 /\ w[2] % n = 0
    /\ \A i \in 1..Len(instance.patients) : instance.patients[i].duration_minutes % n = 0

\* The candidates (patient, doctor, start, end) of one call.
CandidatesOf(call) ==
    UNION { { <<pd[1], pd[2], call.feasible[pd[1]][pd[2]][i]>> :
                i \in 1..Len(call.feasible[pd[1]][pd[2]]) } :
            pd \in IdsOf(instance.patients) \X IdsOf(instance.doctors) }

\* C10 as stated: for steps step_a < step_b with every boundary a multiple of
\* step_a, every candidate generated with step_b is generated with step_a.
C10_MonotonicAsStated ==
    \A a \in 1..Len(calls) : \A b \in 1..Len(calls) :
        (/\ ~calls[a].raised /\ ~calls[b].raised
         /\ calls[a].step < calls[b].step
         /\ BoundariesMultiplesOf(calls[a].step))
            => CandidatesOf(calls[b]) \subseteq CandidatesOf(calls[a])

\* C10 amended: the same, for step_b a multiple of step_a.
C10_MonotonicForMultiples ==
    \A a \in 1..Len(calls) : \A b \in 1..Len(calls) :
        (/\ ~calls[a].raised /\ ~calls[b].raised
         /\ calls[a].step < calls[b].step
         /\ calls[b].step % calls[a].step = 0
         /\ BoundariesMultiplesOf(calls[a].step))
            => CandidatesOf(calls[b]) \subseteq CandidatesOf(calls[a])

C10_Witness ==
    \E a \in 1..Len(calls) : \E b \in 1..Len(calls) :
        /\ ~calls[a].raised /\ ~calls[b].raised
        /\ calls[a].step < calls[b].step
        /\ calls[b].step % calls[a].step = 0
        /\ BoundariesMultiplesOf(calls[a].step)
        /\ CandidatesOf(calls[b]) # {}
        /\ CandidatesOf(calls[b]) # CandidatesOf(calls[a])

\* C16: a non-positive duration is fatal for the engine.  For a case with a
\* patient whose duration_minutes is 0 or below, candidate generation (the
\* first thing solve does) raises, and no candidate, so no zero-length or
\* negative-length interval, is generated for that patient.
C16_NonPositiveDurationFatal ==
    \A n \in 1..Len(calls) :
        \A i \in 1..Len(instance.patients) :
            instance.patients[i].duration_minutes <= 0 =>
                /\ calls[n].raised
                /\ calls[n].feasible = <<>>

WindowCandidates(s, e, d, stp) ==
    IF e <= s \/ s + d > e THEN <<>>
    ELSE [n \in 1..((e - s - d) \div stp + 1) |->
            <<s + (n - 1) * stp, s + (n - 1) * stp + d>>]

\* The same over the windows av[k..] of a doctor, in window order.
RECURSIVE ExactCandidates(_, _, _, _)
ExactCandidates(av, k, d, stp) ==
    IF k > Len(av) THEN <<>>
    ELSE WindowCandidates(DAY_TO_OFFSET(av[k].day) + av[k].start.h * 60 + av[k].start.m,
                          DAY_TO_OFFSET(av[k].day) + av[k].end.h * 60 + av[k].end.m,
                          d, stp)
         \o ExactCandidates(av, k + 1, d, stp)

\* Some window of the case has an unknown day or a time that does not parse.
Unreadable ==
    \E i \in 1..Len(instance.doctors) :
        \E k \in 1..Len(instance.doctors[i].availability) :
            LET w == instance.doctors[i].availability[k]
            IN ~KnownDay(w.day) \/ ~w.start.parses \/ ~w.end.parses

\* C18: the candidate set is exact.  For step >= 1 the candidates of patient
\* p (duration d) and doctor D are exactly the intervals [s + k*step,
\* s + k*step + d) for every window [s, e) of D with e > s and every k >= 0
\* with s + k*step + d <= e, in window order then by increasing k; a window
\* with e <= s gives no candidate and no error.
C18_ExactCandidates ==
    \A n \in 1..Len(calls) :
        /\ calls[n].raised <=> Unreadable
        /\ ~calls[n].raised =>
              \A i \in 1..Len(instance.patients) : \A j \in 1..Len(instance.doctors) :
                  calls[n].feasible[instance.patients[i].id][instance.doctors[j].id]
                    = ExactCandidates(instance.doctors[j].availability, 1,
                                      instance.patients[i].duration_minutes, calls[n].step)

\* A doctor with two windows that both give candidates, one of them several.
C18_Witness ==
    /\ Len(calls) >= 1
    /\ ~calls[1].raised
    /\ instance.doctors[1].availability = <<GenWindowPool[1], GenWindowPool[3]>>
    /\ instance.patients[1].duration_minutes = 20
    /\ calls[1].step = 15
    /\ Len(calls[1].feasible["p1"]["d1"]) = 4

----------------------------------------------------------------------------
(* The calendar conversions on their own *)

\* Here instance is the (day, "HH:MM") read, result the two absolute minutes
\* computed from it (the engine's and the verifier's), step the minute
\* converted back and solution what minutes_to_day_hhmm returns for it.
NoTime == [day |-> "", hhmm |-> BadTime]

DayTimes == { [day |-> DAY_ORDER[d], hhmm |-> T(hh, mm)] :
                d \in 1..Len(DAY_ORDER), hh \in 0..23, mm \in 0..59 }

\* Minutes below 0 and at or above the end of the week.
OutsideWeek ==
    ((0 - 2 * MINUTES_PER_DAY)..(0 - 1))
    \cup ((Len(DAY_ORDER) * MINUTES_PER_DAY)..((Len(DAY_ORDER) + 2) * MINUTES_PER_DAY))

InitCalendar ==
    /\ \/ pc = "time" /\ instance \in DayTimes /\ step = 0
       \/ pc = "minute" /\ instance = NoTime /\ step \in OutsideWeek
    /\ feasible = <<>>
    /\ solution = NoSolution
    /\ result = NoResult
    /\ calls = <<>>

ToAbsolute ==
    /\ pc = "time"
    /\ result' = [engine |-> engine_absolute(instance.day, instance.hhmm),
                  verifier |-> to_absolute_minutes(instance.day, instance.hhmm)]
    /\ pc' = "absolute"
    /\ UNCHANGED <<instance, step, feasible, solution, calls>>

FromAbsolute ==
    /\ pc = "absolute"
    /\ ~result.engine.raised
    /\ step' = result.engine.v
    /\ solution' = minutes_to_day_hhmm(result.engine.v)
    /\ pc' = "rendered"
    /\ UNCHANGED <<instance, feasible, result, calls>>

FromMinute ==
    /\ pc = "minute"
    /\ solution' = minutes_to_day_hhmm(step)
    /\ pc' = "converted"
    /\ UNCHANGED <<instance, step, feasible, result, calls>>

NextCalendar == ToAbsolute \/ FromAbsolute \/ FromMinute

SpecCalendar == InitCalendar /\ [][NextCalendar]_vars

\* C19: calendar round trip.  For every day Monday..Sunday and every hh:mm
\* with hh in 0..23 and mm in 0..59 the absolute minute is
\* day_index * 1440 + hh * 60 + mm (engine and verifier alike), and
\* minutes_to_day_hhmm of that minute returns the same day and the same
\* "HH:MM"; minutes_to_day_hhmm of a minute below 0 or at or above 7 * 1440
\* fails.
C19_CalendarRoundTrip ==
    /\ pc \in {"absolute", "rendered"} =>
          LET expected == [raised |-> FALSE,
                           v |-> (DayIndex(instance.day) - 1) * 1440
                                 + instance.hhmm.h * 60 + instance.hhmm.m]
          IN result.engine = expected /\ result.verifier = expected
    /\ pc = "rendered" =>
          /\ ~solution.raised
          /\ solution.day = instance.day
          /\ solution.hhmm = instance.hhmm
    /\ pc = "converted" =>
          /\ step < 0 \/ step >= 7 * 1440
          /\ solution.raised

\* Sunday 23:59, the last minute of the week, converted and back.
C19_Witness ==
    /\ pc = "rendered"
    /\ instance = [day |-> "Sunday", hhmm |-> T(23, 59)]
    /\ step = 10079
    /\ solution.day = "Sunday"
    /\ solution.hhmm = T(23, 59)

----------------------------------------------------------------------------
(* build_feasible_starts one loop step at a time *)

\* Here calls holds the frame of the running call, <<[p, d, w, start, n]>>:
\* the indices of the three for loops (lines 76, 79, 81), the loop variable
\* start, and the number of passes of the while loop in the current window.
LoopSteps == {0, 10, 30}

LoopSlots(j) == DocSlots(instance.doctors[j].availability, 1)

LoopDur == instance.patients[calls[1].p].duration_minutes

LoopWindow == LoopSlots(calls[1].d).slots[calls[1].w]

\* Mutant: start is not advanced.
NextStart_Stuck(start, stp) == start

\* start += step (line 85)
NextStart(start, stp) == start + stp

\* Cases whose only patient takes as long as the longest window.
LongCases ==
    { [doctors |-> << [id |-> DoctorIds[1], availability |-> a1],
                      [id |-> DoctorIds[2], availability |-> <<>>] >>,
       patients |-> << [id |-> PatientIds[1], duration_minutes |-> 60] >>] :
        a1 \in GenAvailabilities }

InitLoop ==
    /\ pc = "call"
    /\ instance \in GenCases \cup NonPositiveCases \cup LongCases
    /\ step = 0
    /\ feasible = <<>>
    /\ solution = NoSolution
    /\ result = NoResult
    /\ calls = <<>>

\* Lines 56-74: durations, doc_intervals (or the ValueError), the empty lists.
EnterCall ==
    /\ pc = "call"
    /\ \E stp \in LoopSteps : step' = stp
    /\ IF \E j \in 1..Len(instance.doctors) : LoopSlots(j).raised
       THEN /\ pc' = "raised"
            /\ UNCHANGED <<feasible, calls>>
       ELSE /\ pc' = "for"
            /\ feasible' = FreshLists(instance.doctors, instance.patients)
            /\ calls' = <<[p |-> 1, d |-> 1, w |-> 1, start |-> 0, n |-> 0]>>
    /\ UNCHANGED <<instance, solution, result>>

\* The headers of the for loops (lines 76, 79, 81) and start = s (line 82).
ForNext ==
    /\ pc = "for"
    /\ calls[1].p <= Len(instance.patients)
    /\ IF calls[1].d > Len(instance.doctors)
       THEN /\ calls' = <<[calls[1] EXCEPT !.p = @ + 1, !.d = 1, !.w = 1]>>
            /\ pc' = "for"
       ELSE IF calls[1].w > Len(LoopSlots(calls[1].d).slots)
       THEN /\ calls' = <<[calls[1] EXCEPT !.d = @ + 1, !.w = 1]>>
            /\ pc' = "for"
       ELSE /\ calls' = <<[calls[1] EXCEPT !.start = LoopWindow[1], !.n = 0]>>
            /\ pc' = "while"
    /\ UNCHANGED <<instance, step, feasible, solution, result>>

\* One pass of the while loop (lines 83-85).
WhileAppend ==
    /\ pc = "while"
    /\ calls[1].start + LoopDur <= LoopWindow[2]
    /\ calls[1].n < MaxIterations
    /\ feasible' = [feasible EXCEPT
                      ![instance.patients[calls[1].p].id][instance.doctors[calls[1].d].id] =
                          Append(@, <<calls[1].start, calls[1].start + LoopDur>>)]
    /\ calls' = <<[calls[1] EXCEPT !.start = NextStart(@, step), !.n = @ + 1]>>
    /\ UNCHANGED <<pc, instance, step, solution, result>>

\* The while test fails (line 83): on to the next window.
WhileExit ==
    /\ pc = "while"
    /\ ~(calls[1].start + LoopDur <= LoopWindow[2])
    /\ calls' = <<[calls[1] EXCEPT !.w = @ + 1]>>
    /\ pc' = "for"
    /\ UNCHANGED <<instance, step, feasible, solution, result>>

\* return feasible, doc_intervals, durations (line 87)
Return ==
    /\ pc = "for"
    /\ calls[1].p > Len(instance.patients)
    /\ pc' = "returned"
    /\ UNCHANGED <<instance, step, feasible, solution, result, calls>>

NextLoop == EnterCall \/ ForNext \/ WhileAppend \/ WhileExit \/ Return

\* The call runs on one thread, which always takes its next step.
SpecLoop == InitLoop /\ [][NextLoop]_vars /\ WF_vars(NextLoop)

Running == pc \in {"for", "while"}

\* floor((e - s - d) / step) + 1 for the window and the patient of the frame
CountBound == (LoopWindow[2] - LoopWindow[1] - LoopDur) \div step + 1

\* C21 as stated: for every positive step the call returns, and the number
\* of candidates of a patient in a window is at most
\* floor((e - s - d) / step) + 1.
C21_TerminatesAsStated ==
    /\ []((Running /\ step >= 1) => <>(pc = "returned"))
    /\ []((pc = "while" /\ step >= 1) => calls[1].n <= CountBound)

\* C21 amended: the same with the count at most floor((e - s - d) / step) + 1
\* for a window that can hold the patient (d <= e - s) and 0 for a window
\* that cannot.
C21_Terminates ==
    /\ []((Running /\ step >= 1) => <>(pc = "returned"))
    /\ []((pc = "while" /\ step >= 1) =>
            calls[1].n <= (IF LoopDur <= LoopWindow[2] - LoopWindow[1] THEN CountBound ELSE 0))

\* A call with a positive step that has returned with several candidates
\* from one window.
C21_Witness ==
    /\ pc = "returned"
    /\ step >= 1
    /\ calls[1].n >= 2
    /\ \E i \in 1..Len(instance.patients) : \E j \in 1..Len(instance.doctors) :
          Len(feasible[instance.patients[i].id][instance.doctors[j].id]) >= 3

----------------------------------------------------------------------------
(* The verifier on cases that are themselves defective *)

\* Windows with an unknown day, an unparseable start, an hour outside
\* [0,23], and end before start.
DefectWindows ==
    { Window("Funday", T(9, 0), T(10, 0)),
      Window("Monday", BadTime, T(10, 0)),
      Window("Monday", T(23, 0), T(24, 0)),
      Window("Monday", T(10, 0), T(9, 0)) }

SoundDoctors ==
    << [id |-> DoctorIds[1], availability |-> <<WindowPool[1]>>],
       [id |-> DoctorIds[2], availability |-> <<>>] >>

\* A sound first window followed by a defective one.
WindowDefectCases ==
    { [doctors |-> << [id |-> DoctorIds[1], availability |-> <<WindowPool[1], w>>],
                      [id |-> DoctorIds[2], availability |-> <<>>] >>,
       patients |-> ps] : w \in DefectWindows, ps \in VerifierPatientLists }

\* A doctor without id, a patient without id, a patient without duration_minutes.
KeyDefectCases ==
    { [doctors |-> << [id |-> DoctorIds[1], availability |-> <<WindowPool[1]>>],
                      [availability |-> <<WindowPool[1]>>] >>,
       patients |-> << [id |-> "p1", duration_minutes |-> 60] >>],
      [doctors |-> SoundDoctors,
       patients |-> << [id |-> "p1", duration_minutes |-> 60], [duration_minutes |-> 30] >>],
      [doctors |-> SoundDoctors,
       patients |-> << [id |-> "p1", duration_minutes |-> 60], [id |-> "p2"] >>] }

SoundCase == [doctors |-> SoundDoctors, patients |-> << [id |-> "p1", duration_minutes |-> 60] >>]

\* Either the engine is run on the case and its solution verified, or
\* solutions from elsewhere are submitted for it.
InitDefects ==
    /\ \/ pc = "start" /\ instance \in WindowDefectCases
       \/ pc = "submit" /\ instance \in WindowDefectCases \cup KeyDefectCases \cup {SoundCase}
    /\ step = 0
    /\ feasible = <<>>
    /\ solution = NoSolution
    /\ result = NoResult
    /\ calls = <<>>

NextDefects == Solve \/ VerifyEngine \/ Submit

SpecDefects == InitDefects /\ [][NextDefects]_vars

\* The case has a doctor without id, a patient without id or
\* duration_minutes, or a window with an unknown day, a malformed time or
\* end <= start.
Defective ==
    \/ \E i \in 1..Len(instance.doctors) : ~HasKey(instance.doctors[i], "id")
    \/ \E i \in 1..Len(instance.patients) :
          ~HasKey(instance.patients[i], "id") \/ ~HasKey(instance.patients[i], "duration_minutes")
    \/ \E i \in 1..Len(instance.doctors) :
          \E k \in 1..Len(instance.doctors[i].availability) :
              ~ValidWindow(instance.doctors[i].availability[k])

Verdict == pc \in {"checked", "verified"}

\* C22: case defects poison every verdict.  For a defective case verify
\* returns valid = false for every solution, the engine's own solution for
\* the case included; and valid is true exactly when errors[] is empty.
C22_CaseDefects ==
    /\ (Verdict /\ Defective) => (~result.raised /\ ~result.valid)
    /\ (Verdict /\ ~result.raised) => (result.valid <=> result.errors = <<>>)

----------------------------------------------------------------------------
(* One doctor with two windows: the candidates, and one placement verified *)

\* Two windows that abut, overlap, or lie apart, and a single window.
TwoWindowLists ==
    { << Window("Monday", T(9, 0), T(10, 0)), Window("Monday", T(10, 0), T(11, 0)) >>,
      << Window("Monday", T(9, 0), T(10, 0)), Window("Monday", T(9, 30), T(10, 30)) >>,
      << Window("Monday", T(9, 0), T(10, 0)), Window("Monday", T(10, 30), T(11, 30)) >>,
      << Window("Monday", T(9, 0), T(10, 0)) >> }

TwoWindowCases ==
    { [doctors |-> << [id |-> DoctorIds[1], availability |-> av] >>,
       patients |-> << [id |-> PatientIds[1], duration_minutes |-> d] >>] :
        av \in TwoWindowLists, d \in {30, 60, 90} }

TwoWindowSteps == {15, 30, 60}

\* The starts of the placements submitted: Monday 08:45 to 10:45, every 15 minutes.
PlacementStarts == { minutes_to_hhmm(8 * 60 + 45 + 15 * k) : k \in 0..8 }

\* The placement of the case's patient on the doctor from start, for the
\* patient's duration.
Placement(inst, start) ==
    LET dur == inst.patients[1].duration_minutes
    IN Item(inst.patients[1].id, inst.doctors[1].id, "Monday", start,
            minutes_to_hhmm(start.h * 60 + start.m + dur), IntField(dur))

InitTwoWindows ==
    /\ pc = "case"
    /\ instance \in TwoWindowCases
    /\ step = 0
    /\ feasible = <<>>
    /\ solution = NoSolution
    /\ result = NoResult
    /\ calls = <<>>

\* build_feasible_starts(doctors, patients, stp) on the case.
GenerateCandidates ==
    /\ pc = "case"
    /\ \E stp \in TwoWindowSteps :
        /\ step' = stp
        /\ feasible' = build_feasible_starts(instance.doctors, instance.patients, stp).feasible
    /\ pc' = "candidates"
    /\ UNCHANGED <<instance, solution, result, calls>>

\* verify(case, solution) for a solution with one placement.
SubmitPlacement ==
    /\ pc = "candidates"
    /\ \E start \in PlacementStarts :
        LET sol == [status |-> "FEASIBLE", objective_value |-> NoObjective,
                    scheduled |-> <<Placement(instance, start)>>, unscheduled |-> <<>>]
        IN /\ solution' = sol
           /\ result' = verify(instance, sol, NoField)
    /\ pc' = "judged"
    /\ UNCHANGED <<instance, step, feasible, calls>>

NextTwoWindows == GenerateCandidates \/ SubmitPlacement

SpecTwoWindows == InitTwoWindows /\ [][NextTwoWindows]_vars

\* [a, b) lies within the union of the doctor's windows but within no
\* single one of them.
Straddles(did, a, b) ==
    /\ \A t \in a..(b - 1) : \E w \in DoctorWindows(did) : w[1] <= t /\ t < w[2]
    /\ ~\E w \in DoctorWindows(did) : w[1] <= a /\ b <= w[2]

\* C23: single-window containment.  Every candidate build_feasible_starts
\* generates lies within one window of its doctor, so a placement covered
\* only by the union of two abutting or overlapping windows is never a
\* candidate; and verify reports such a placement as an availability error.
C23_SingleWindow ==
    /\ pc \in {"candidates", "judged"} =>
          \A c \in CandidateSet :
              /\ \E w \in DoctorWindows(c.did) : w[1] <= c.s /\ c.e <= w[2]
              /\ ~Straddles(c.did, c.s, c.e)
    /\ pc = "judged" =>
          LET item == solution.scheduled[1] IN
          Straddles(item.doctor_id, ItemStart(item), ItemEnd(item)) =>
              /\ ~result.raised
              /\ Reported(1, {"availability"})
              /\ ~result.valid

\* Monday 09:30-10:30 with windows 09:00-10:00 and 10:00-11:00: not among
\* the candidates, and refused by verify.
C23_Witness ==
    /\ pc = "judged"
    /\ instance.doctors[1].availability
          = << Window("Monday", T(9, 0), T(10, 0)), Window("Monday", T(10, 0), T(11, 0)) >>
    /\ solution.scheduled[1].start = T(9, 30)
    /\ solution.scheduled[1].end = T(10, 30)
    /\ step = 30
    /\ Straddles("d1", 570, 630)
    /\ feasible["p1"]["d1"] = << <<540, 600>>, <<600, 660>> >>
    /\ Reported(1, {"availability"})

====
